---- MODULE Spec2Model ----
(***************************************************************************)
(* The five Blackboard Collaborate extractors of                           *)
(* yt_dlp/extractor/blackboardcollaborate.py as one state machine.         *)
(*                                                                         *)
(* A resolution is the run of one extractor's _real_extract on one URL.    *)
(* Each action is one request of that run together with the computation    *)
(* that follows it up to the next request (or up to the return / raise).   *)
(* What the server answers is drawn with \E at the request.                *)
(*                                                                         *)
(* Python values: an optional value (a key that may be missing from a JSON *)
(* object, or None) is a sequence of length 0 or 1: <<>> is "absent/None", *)
(* <<v>> is the value v.  A JSON object is a record of such options.       *)
(***************************************************************************)
EXTENDS Integers, Sequences, FiniteSets, TLC

VARIABLES
    ie,                 \* the extractor running the current resolution
    pc,                 \* where its _real_extract stands
    url,                \* the URL it was given
    data,               \* metadata smuggled along with the URL
    chain,              \* extractors of the deferral chain so far, current one last
    requests,           \* requests issued in the current resolution, in order
    video_info,         \* BlackboardCollaborateIE: result of the data/secure call
    playlist_info,      \* BlackboardClassCollaborateIE: the recordings list
    token,              \* BlackboardClassCollaborateIE: the bearer token
    redirect_url,       \* SingleCourseIE: URL the form POST redirected to
    number_of_courses,  \* AllCoursesIE: paging.count of the last page
    courses_found,      \* AllCoursesIE: results fetched so far
    entries,            \* playlist entries built so far
    result              \* what the resolution returned or raised

vars == <<ie, pc, url, data, chain, requests, video_info, playlist_info, token,
          redirect_url, number_of_courses, courses_found, entries, result>>

\* ---------------------------------------------------------------- bounds

MaxStreams == 1
MaxSubs == 1
MaxChats == 1
MaxTracks == 2
MaxResults == 2
MaxPageLen == 2
MaxCount == 2
MaxRequests == 3
MaxMs == 2500

\* ---------------------------------------------------------------- values

None == <<>>
Some(v) == <<v>>
Opt(S) == {None} \cup {Some(x) : x \in S}
BSeq(S, n) == UNION {[1..k -> S] : k \in 0..n}

IE_Collaborate == "BlackboardCollaborate"
IE_Launch == "BlackboardCollaborateLaunch"
IE_Class == "BlackboardClassCollaborate"
IE_SingleCourse == "BlackboardCollaborateUltraSingleCourse"
IE_AllCourses == "BlackboardCollaborateUltraAllCourses"

Error(exc) == [kind |-> "error", exc |-> exc]
NoResult == [kind |-> "none"]

\* A fetch that did not fail, and the value a non-fatal fetch returns when it did.
Fetched(json) == [ok |-> TRUE, json |-> json]
Failed == [ok |-> FALSE]

\* ---------------------------------------------------------------- utils

\* url_or_none keeps a string that starts with a scheme and "//"; the sample
\* strings below that do are listed here.
ValidUrls == {"https://cdn/v.mp4", "https://cdn/en.vtt", "https://cdn/fr.vtt",
              "https://cdn/chat1.json", "https://cdn/chat2.json"}

UrlOrNone(u) == IF u \in ValidUrls THEN Some(u) ELSE None

StrOrNone(v) == v

Mimetype2Ext(mt) ==
    IF mt = None THEN None
    ELSE CASE mt[1] = "video/mp4" -> Some("mp4")
           [] mt[1] = "video/webm" -> Some("webm")
           [] OTHER -> None

\* int_or_none(v, scale): int(v) // scale, None for None.
IntOrNone(v, scale) == IF v = None THEN None ELSE Some(v[1] \div scale)

ParseIso8601(v) ==
    IF v = None THEN None
    ELSE CASE v[1] = "2021-05-06T20:34:55Z" -> Some(1620333295)
           [] OTHER -> None

\* Python's true division by 1000 of an integer, as whole seconds and the
\* remaining thousandths.
TrueDiv1000(ms) == [s |-> ms \div 1000, thousandths |-> ms % 1000]

\* ------------------------------------------------- URLs handed to extractors

\* Except for BlackboardClassCollaborateIE, whose _VALID_URL is modelled symbol
\* by symbol below, a URL is the extractor whose _VALID_URL matches it ("shape")
\* and the groups that extractor reads.
RecordingUrls == {[shape |-> "recording", id |-> "rec1", token |-> t] : t \in Opt({"tok"})}
OtherUrl == [shape |-> "other"]
LaunchTokens == {"jwt", "jwt_noid", "nodot", "garbage"}
LaunchUrls == {[shape |-> "launch", token |-> t] : t \in LaunchTokens}
CourseUrl == [shape |-> "course", host |-> "lms", course_id |-> "_1_1"]
SchemelessCourseUrl == [shape |-> "other", host |-> "lms"]
InstitutionUrl == [shape |-> "institution", host |-> "lms"]

NoData == [title |-> None, alt_title |-> None, description |-> None,
           modified_timestamp |-> None, channel_id |-> None]

\* ------------------------------------------------- BlackboardCollaborateIE

Streams ==
    { [streamUrl |-> Some("https://cdn/v.mp4"), contentType |-> Some("video/mp4"),
       aspectRatio |-> Some("16:9")],
      [streamUrl |-> None, contentType |-> None, aspectRatio |-> None] }

SubEntries ==
    { [lang |-> Some("en"), label |-> Some("English"), url |-> Some("https://cdn/en.vtt")],
      [lang |-> None, label |-> None, url |-> Some("fr.vtt")],
      [lang |-> Some("fr"), label |-> Some("French"), url |-> None] }

ChatEntries == { [url |-> Some("https://cdn/chat1.json")], [url |-> None] }

VideoInfos ==
    [ duration : Opt({1500}),
      name : Opt({"recording_1"}),
      created : Opt({"2021-05-06T20:34:55Z"}),
      extStreams : Opt(BSeq(Streams, MaxStreams)),
      subtitles : Opt(BSeq(SubEntries, MaxSubs)),
      chats : Opt(BSeq(ChatEntries, MaxChats)) ]

VideoExtras == [storageSize : Opt({1048576})]

IsEmptyDict(d) == \A k \in DOMAIN d : d[k] = None

TruthyWhenFetched(resp) == resp.ok

\* Python truthiness of what a non-fatal _download_json returned.
Truthy(resp) == resp.ok /\ ~IsEmptyDict(resp.json)

EmptyFormat == [url |-> None, container |-> None, aspect_ratio |-> None]

Format(s) ==
    [url |-> IF s.streamUrl = None THEN None ELSE UrlOrNone(s.streamUrl[1]),
     container |-> Mimetype2Ext(s.contentType),
     aspect_ratio |-> s.aspectRatio]

\* traverse_obj(video_info, ('extStreams', ..., {...})): one dict per stream,
\* a dict with no value left is dropped.
Formats(info) ==
    LET streams == IF info.extStreams = None THEN <<>> ELSE info.extStreams[1]
        kept == SelectSeq(streams, LAMBDA s : Format(s) # EmptyFormat)
    IN  [i \in 1..Len(kept) |-> Format(kept[i])]

SetFilesize(f, size) ==
    [url |-> f.url, container |-> f.container, aspect_ratio |-> f.aspect_ratio,
     filesize |-> size]

\* for cur_format in formats: cur_format['filesize'] = int_or_none(video_extra.get(...))
WithFilesize(formats, extra) ==
    IF formats = <<>> THEN [err |-> None, formats |-> <<>>]
    ELSE IF ~extra.ok THEN [err |-> Some("AttributeError"), formats |-> <<>>]
    ELSE [err |-> None,
          formats |-> [i \in 1..Len(formats) |->
                          SetFilesize(formats[i], IntOrNone(extra.json.storageSize, 1))]]

LiveChat == Some("live_chat")

SetDefaultOverwrite(m, k, v) ==
    IF k \in DOMAIN m THEN [m EXCEPT ![k] = <<v>>] ELSE m @@ (k :> <<v>>)

\* subtitles.setdefault(k, []).append(v)
SetDefaultAppend(m, k, v) ==
    IF k \in DOMAIN m THEN [m EXCEPT ![k] = Append(@, v)] ELSE m @@ (k :> <<v>>)

SubTrack(cur) == [name |-> StrOrNone(cur.label), url |-> UrlOrNone(cur.url[1])]
ChatTrack(cur) == [url |-> UrlOrNone(cur.url[1])]

\* The loop over video_info.get('subtitles'), from entry i on.
RECURSIVE AddSubtitles(_, _, _)
AddSubtitles(subs, i, m) ==
    IF i > Len(subs) THEN [err |-> None, map |-> m]
    ELSE IF subs[i].url = None THEN [err |-> Some("KeyError"), map |-> m]
    ELSE AddSubtitles(subs, i + 1, SetDefaultAppend(m, subs[i].lang, SubTrack(subs[i])))

\* The loop over video_info.get('chats'), from entry i on.
RECURSIVE AddChats(_, _, _)
AddChats(chats, i, m) ==
    IF i > Len(chats) THEN [err |-> None, map |-> m]
    ELSE IF chats[i].url = None THEN [err |-> Some("KeyError"), map |-> m]
    ELSE AddChats(chats, i + 1, SetDefaultAppend(m, LiveChat, ChatTrack(chats[i])))

\* Lines 141-150: iterating None raises TypeError.
Subtitles(info) ==
    IF info.subtitles = None THEN [err |-> Some("TypeError"), map |-> <<>>]
    ELSE LET s == AddSubtitles(info.subtitles[1], 1, <<>>) IN
         IF s.err # None THEN s
         ELSE IF info.chats = None THEN [err |-> Some("TypeError"), map |-> s.map]
         ELSE AddChats(info.chats[1], 1, s.map)

\* Lines 128-159: what _real_extract does with video_info and video_extra.
ExtractInfo(video_id, info, extra) ==
    LET f == WithFilesize(Formats(info), extra)
        s == Subtitles(info)
    IN  IF f.err # None THEN Error(f.err[1])
        ELSE IF s.err # None THEN Error(s.err[1])
        ELSE [kind |-> "info",
              duration |-> IntOrNone(info.duration, 1000),
              formats |-> f.formats,
              id |-> video_id,
              timestamp |-> ParseIso8601(info.created),
              subtitles |-> s.map,
              title |-> info.name]

SecureResponses == {Failed} \cup {Fetched(i) : i \in VideoInfos}
ExtraResponses == {Failed} \cup {Fetched(e) : e \in VideoExtras}

PrependEntry(es, e) == <<e>> \o es

\* entries.append(e)
AppendEntry(es, e) == Append(es, e)

Request(api, auth, resp) == [api_call |-> api, auth |-> auth, response |-> resp]

UNCHANGED_others == UNCHANGED <<playlist_info, token, redirect_url, number_of_courses,
                               courses_found, entries>>

TrySecure ==
    /\ ie = IE_Collaborate
    /\ pc = "start"
    /\ IF url.shape # "recording"
       THEN /\ result' = Error("AttributeError")
            /\ pc' = "done"
            /\ UNCHANGED <<requests, video_info>>
       ELSE \E resp \in SecureResponses :
            /\ requests' = Append(requests, Request("data/secure", url.token, resp))
            /\ video_info' = resp
            /\ pc' = IF Truthy(resp) THEN "extra" ELSE "fallback"
            /\ UNCHANGED result
    /\ UNCHANGED <<ie, url, data, chain>>
    /\ UNCHANGED_others

RetrieveExtra ==
    /\ ie = IE_Collaborate
    /\ pc = "extra"
    /\ \E extra \in ExtraResponses :
        /\ requests' = Append(requests, Request("", url.token, extra))
        /\ result' = ExtractInfo(url.id, video_info.json, extra)
    /\ pc' = "done"
    /\ UNCHANGED <<ie, url, data, chain, video_info>>
    /\ UNCHANGED_others

TryFallback ==
    /\ ie = IE_Collaborate
    /\ pc = "fallback"
    /\ \E resp \in SecureResponses :
        /\ requests' = Append(requests, Request("data", None, resp))
        /\ IF ~resp.ok
           THEN result' = Error("ExtractorError") /\ UNCHANGED video_info
           ELSE /\ video_info' = resp
                /\ result' = ExtractInfo(url.id, video_info'.json,
                                         Fetched([storageSize |-> None]))
    /\ pc' = "done"
    /\ UNCHANGED <<ie, url, data, chain>>
    /\ UNCHANGED_others

\* ------------------------------------------------- BlackboardCollaborateLaunchIE

\* token.split('.')[1], base64 + '===', json.loads, then
\* traverse_obj(..., ('resourceAccessTicket', 'resourceId')), by kind of token.
LaunchVideoId(t) ==
    CASE t = "jwt" -> [err |-> None, video_id |-> Some("rec1")]
      [] t = "jwt_noid" -> [err |-> None, video_id |-> None]
      [] t = "nodot" -> [err |-> Some("IndexError"), video_id |-> None]
      [] OTHER -> [err |-> Some("ValueError"), video_id |-> None]

UrlResult(u, d, key, vid) ==
    [kind |-> "url", url |-> u, data |-> d, ie_key |-> key, video_id |-> vid]

LaunchTargetSelf == IE_Launch
LaunchTarget == IE_Collaborate

RedirectResponses == {Failed} \cup {Fetched(u) : u \in RecordingUrls \cup {OtherUrl}}

FollowLaunch ==
    /\ ie = IE_Launch
    /\ pc = "start"
    /\ IF url.shape # "launch"
       THEN result' = Error("TypeError") /\ UNCHANGED requests
       ELSE LET d == LaunchVideoId(url.token) IN
            IF d.err # None
            THEN result' = Error(d.err[1]) /\ UNCHANGED requests
            ELSE \E resp \in RedirectResponses :
                /\ requests' = Append(requests, Request("launch", None, resp))
                /\ result' = IF ~resp.ok THEN Error("ExtractorError")
                             ELSE UrlResult(resp.json, NoData, LaunchTarget, d.video_id)
    /\ pc' = "done"
    /\ UNCHANGED <<ie, url, data, chain, video_info>>
    /\ UNCHANGED_others

\* ------------------------------------------------- BlackboardClassCollaborateIE

\* A URL is a sequence of symbols; a symbol is one character of a class the
\* pattern tells apart, or a literal run of the pattern.
Lower == {"e", "u"}
TokenChars == Lower \cup {"h", "p", "q", ".", "%2E"}
\* The other symbols are "http", "s", "://", "-lti", ".bbcollab.com/",
\* "collab/ui/scheduler/", "lti", "/", "?", "token=" and "=".

One(S) == [set |-> S, q |-> "1"]
Maybe(S) == [set |-> S, q |-> "?"]
Plus(S) == [set |-> S, q |-> "+"]

TokenGroup == One({"token="})

\* https?://(?P<region>[a-z]+)(?:-lti)?\.bbcollab\.com/(?:collab/ui/scheduler/)?
\* lti/?\??(token=(?P<token>[\w%\.\-]+))
ClassValidUrl ==
    << One({"http"}), Maybe({"s"}), One({"://"}), Plus(Lower), Maybe({"-lti"}),
       One({".bbcollab.com/"}), Maybe({"collab/ui/scheduler/"}), One({"lti"}),
       Maybe({"/"}), Maybe({"?"}), TokenGroup, Plus(TokenChars) >>

\* The positions at which a match of re[k..] that starts at s[i] can end.
RECURSIVE Ends(_, _, _, _)
Ends(re, k, s, i) ==
    IF k > Len(re) THEN {i}
    ELSE LET here == i <= Len(s) /\ s[i] \in re[k].set
             take == IF here THEN Ends(re, k + 1, s, i + 1) ELSE {}
         IN  CASE re[k].q = "1" -> take
               [] re[k].q = "?" -> take \cup Ends(re, k + 1, s, i)
               [] OTHER -> take \cup (IF here THEN Ends(re, k, s, i + 1) ELSE {})

\* re.match: the pattern matches a prefix of the URL.
Matches(re, s) == Ends(re, 1, s, 1) # {}

\* The longest run of symbols of S in s from position i on.
RECURSIVE Run(_, _, _)
Run(s, i, S) ==
    IF i <= Len(s) /\ s[i] \in S THEN <<s[i]>> \o Run(s, i + 1, S) ELSE <<>>

IndexOf(s, x) == IF \E i \in 1..Len(s) : s[i] = x
                 THEN Some(CHOOSE i \in 1..Len(s) : s[i] = x /\ \A j \in 1..(i - 1) : s[j] # x)
                 ELSE None

\* self._match_valid_url(url): None, or the groups region and token.
MatchValidUrl(s) ==
    IF ~Matches(ClassValidUrl, s) THEN None
    ELSE Some([region |-> Run(s, IndexOf(s, "://")[1] + 1, Lower),
               token |-> Run(s, IndexOf(s, "token=")[1] + 1, TokenChars)])

\* urllib.parse.unquote
Unquote(t) == [i \in 1..Len(t) |-> IF t[i] = "%2E" THEN "." ELSE t[i]]

\* token.split('.')[1]
SecondSegment(t) ==
    LET d == IndexOf(t, ".") IN
    IF d = None THEN [err |-> Some("IndexError"), seg |-> <<>>]
    ELSE [err |-> None, seg |-> Run(t, d[1] + 1, TokenChars \ {"."})]

\* json.loads(base64.b64decode(seg + '==='))['context']: the symbol "p" stands
\* for an encoded JSON object with a context, "q" for one without.
TokenContext(t) ==
    LET s == SecondSegment(t) IN
    IF s.err # None THEN [err |-> s.err, context |-> None]
    ELSE CASE s.seg = <<"p">> -> [err |-> None, context |-> Some("ctx")]
           [] s.seg = <<"q">> -> [err |-> Some("KeyError"), context |-> None]
           [] OTHER -> [err |-> Some("ValueError"), context |-> None]

UrlHead(lti, prefix) ==
    <<"http", "s", "://", "e", "u">> \o lti \o <<".bbcollab.com/">> \o prefix \o <<"lti">>

\* The two URLs of _TESTS.
ClassTestUrl1 == UrlHead(<<>>, <<>>)
ClassTestUrl2 == UrlHead(<<"-lti">>, <<"collab/ui/scheduler/">>)
                    \o <<"?", "token=", "h", ".", "p", "=", "=", ".", "h">>

ClassTokens == { <<"h", ".", "p", ".", "h">>, <<"h", "%2E", "p", "%2E", "h">>,
                 <<"h", ".", "q", ".", "h">>, <<"h", ".", "h", "h", ".", "h">>, <<"h">> }

ClassUrls ==
    { UrlHead(lti, prefix) \o slash \o qm \o tok :
        lti \in {<<>>, <<"-lti">>},
        prefix \in {<<>>, <<"collab/ui/scheduler/">>},
        slash \in {<<>>, <<"/">>},
        qm \in {<<>>, <<"?">>},
        tok \in {<<>>} \cup {<<"token=">> \o t : t \in ClassTokens} }
    \cup {ClassTestUrl1, ClassTestUrl2}

\* The URLs the resolver is run on.
ClassInputs ==
    {ClassTestUrl1, ClassTestUrl2}
    \cup {UrlHead(<<>>, <<>>) \o <<"?", "token=">> \o t : t \in ClassTokens}

Item(id, pla, count, dur) ==
    [id |-> id, publicLinkAllowed |-> pla, playbackCount |-> count, duration |-> dur]

Items ==
    { Item(Some("r1"), Some(TRUE), Some(3), Some(1500)),
      Item(Some("r2"), Some(FALSE), Some(0), Some(2000)),
      Item(None, Some(TRUE), Some(3), Some(1500)),
      Item(Some("r1"), None, Some(3), Some(1500)),
      Item(Some("r1"), Some(TRUE), None, Some(1500)),
      Item(Some("r1"), Some(TRUE), Some(3), None) }

PlaylistInfos == [results : Opt(BSeq(Items, MaxResults)), size : Opt({2})]

ItemUrls == {[shape |-> "launch", token |-> "jwt"], OtherUrl}
ItemUrlResponses == {Failed} \cup {Fetched([url |-> u]) : u \in Opt(ItemUrls)}

AvailabilityAlwaysPublic(pla) == "public"

Availability(pla) == IF pla THEN "public" ELSE "needs_auth"

PlaylistDurationWholeSeconds(ms) == [s |-> ms \div 1000, thousandths |-> 0]

\* i['duration'] / 1000
PlaylistDuration(ms) == TrueDiv1000(ms)

Entry(i, current_url) ==
    [id |-> i.id[1], _type |-> "url", url |-> current_url,
     view_count |-> i.playbackCount[1],
     duration |-> PlaylistDuration(i.duration[1]),
     availability |-> Availability(i.publicLinkAllowed[1]),
     ie_key |-> IE_Launch]

\* Lines 232-239: playlist_info['size'] is read when the loop is over.
PlaylistResult(es, info, d) ==
    IF info.size = None THEN Error("KeyError")
    ELSE [kind |-> "playlist", entries |-> es, playlist_count |-> info.size[1],
          title |-> d.title, alt_title |-> d.alt_title, description |-> d.description,
          modified_timestamp |-> d.modified_timestamp, channel_id |-> d.channel_id]

Raise(exc) == result' = Error(exc) /\ pc' = "done"

DownloadPlaylist ==
    /\ ie = IE_Class
    /\ pc = "start"
    /\ LET mobj == MatchValidUrl(url) IN
       IF mobj = None
       THEN Raise("TypeError") /\ UNCHANGED <<requests, playlist_info, token>>
       ELSE LET tok == Unquote(mobj[1].token)
                info == TokenContext(tok)
            IN  IF info.err # None
                THEN Raise(info.err[1]) /\ UNCHANGED <<requests, playlist_info, token>>
                ELSE \E resp \in {Failed} \cup {Fetched(p) : p \in PlaylistInfos} :
                    /\ requests' = Append(requests, Request(<<"recordings">>, Some(tok), resp))
                    /\ token' = Some(tok)
                    /\ IF ~resp.ok
                       THEN Raise("ExtractorError") /\ UNCHANGED playlist_info
                       ELSE /\ playlist_info' = Some(resp.json)
                            /\ IF resp.json.results = None
                               THEN Raise("KeyError")
                               ELSE IF resp.json.results[1] = <<>>
                               THEN /\ result' = PlaylistResult(<<>>, resp.json, data)
                                    /\ pc' = "done"
                               ELSE pc' = "item" /\ UNCHANGED result
    /\ UNCHANGED <<ie, url, data, chain, video_info, redirect_url, number_of_courses,
                   courses_found, entries>>

\* One turn of the loop over playlist_info['results'].
GetItemUrl ==
    /\ ie = IE_Class
    /\ pc = "item"
    /\ LET results == playlist_info[1].results[1]
           i == results[Len(entries) + 1]
       IN  IF i.id = None
           THEN Raise("KeyError") /\ UNCHANGED <<requests, entries>>
           ELSE \E resp \in ItemUrlResponses :
               /\ requests' = Append(requests,
                                     Request(<<"recordings", i.id[1], "url">>, token, resp))
               /\ IF ~resp.ok
                  THEN Raise("ExtractorError") /\ UNCHANGED entries
                  ELSE IF \/ resp.json.url = None
                          \/ i.publicLinkAllowed = None
                          \/ i.playbackCount = None
                          \/ i.duration = None
                  THEN Raise("KeyError") /\ UNCHANGED entries
                  ELSE /\ entries' = AppendEntry(entries, Entry(i, resp.json.url[1]))
                       /\ IF Len(entries') = Len(results)
                          THEN /\ result' = PlaylistResult(entries', playlist_info[1], data)
                               /\ pc' = "done"
                          ELSE UNCHANGED <<result, pc>>
    /\ UNCHANGED <<ie, url, data, chain, video_info, playlist_info, token, redirect_url,
                   number_of_courses, courses_found>>

\* ------------------------------------------------- BlackboardCollaborateUltraSingleCourseIE

CoursePages == {Failed, Fetched([form |-> TRUE]), Fetched([form |-> FALSE])}

CourseInfos ==
    { [displayName |-> Some("Course"), displayId |-> Some("C-1"),
       description |-> Some("About"), modifiedDate |-> Some("2021-05-06T20:34:55Z")],
      [displayName |-> Some("Course"), displayId |-> None,
       description |-> None, modifiedDate |-> None],
      [displayName |-> None, displayId |-> None,
       description |-> None, modifiedDate |-> None] }

\* Lines 294-299: the dict smuggled into the redirect URL.
Smuggled(info, course_id) ==
    [title |-> info.displayName, alt_title |-> info.displayId,
     description |-> info.description,
     modified_timestamp |-> ParseIso8601(info.modifiedDate),
     channel_id |-> Some(course_id)]

\* The launch page is fetched and the form's action is searched in it.
DownloadCourseData ==
    /\ ie = IE_SingleCourse
    /\ pc = "start"
    /\ IF url.shape # "course"
       THEN Raise("AttributeError") /\ UNCHANGED requests
       ELSE \E page \in CoursePages :
           /\ requests' = Append(requests, Request("launch", None, page))
           /\ IF ~page.ok \/ ~page.json.form
              THEN Raise("ExtractorError")
              ELSE pc' = "post" /\ UNCHANGED result
    /\ UNCHANGED <<ie, url, data, chain, video_info>>
    /\ UNCHANGED_others

GetAuthToken ==
    /\ ie = IE_SingleCourse
    /\ pc = "post"
    /\ \E resp \in {Failed} \cup {Fetched(u) : u \in ClassInputs} :
        /\ requests' = Append(requests, Request("form_action", None, resp))
        /\ IF ~resp.ok
           THEN Raise("ExtractorError") /\ UNCHANGED redirect_url
           ELSE redirect_url' = Some(resp.json) /\ pc' = "meta" /\ UNCHANGED result
    /\ UNCHANGED <<ie, url, data, chain, video_info, playlist_info, token,
                   number_of_courses, courses_found, entries>>

CourseTarget == IE_Class

\* The non-fatal metadata fetch, and the return that reads course_info.
DownloadExtraMetadata ==
    /\ ie = IE_SingleCourse
    /\ pc = "meta"
    /\ \E info \in {Failed} \cup {Fetched(c) : c \in CourseInfos} :
        /\ requests' = Append(requests, Request("courses", None, info))
        /\ result' = IF ~info.ok THEN Error("AttributeError")
                     ELSE UrlResult(redirect_url[1], Smuggled(info.json, url.course_id),
                                    CourseTarget, None)
    /\ pc' = "done"
    /\ UNCHANGED <<ie, url, data, chain, video_info>>
    /\ UNCHANGED_others

\* ------------------------------------------------- BlackboardCollaborateUltraAllCoursesIE

Course(id, avail, ext) ==
    [id |-> Some(id), displayName |-> Some(id), displayId |-> Some(id),
     isAvailable |-> avail, externalAccessUrl |-> ext, homePageUrl |-> Some("home")]

Courses ==
    { Course("c1", Some(TRUE), Some(CourseUrl)),
      Course("c2", Some(TRUE), None),
      Course("c3", Some(FALSE), None),
      Course("c4", None, None) }

Memberships == {[course |-> c] : c \in Opt(Courses)}

Pages == [count : Opt(0..MaxCount), results : Opt(BSeq(Memberships, MaxPageLen))]

\* traverse_obj(current_page, ('results', ..., 'course')): results without a
\* course are skipped.
CoursesOf(results) ==
    LET kept == SelectSeq(results, LAMBDA r : r.course # None)
    IN  [i \in 1..Len(kept) |-> kept[i].course[1]]

CourseEntry(c, host) ==
    [id |-> c.id, title |-> c.displayName, alt_title |-> c.displayId, _type |-> "url",
     url |-> IF c.externalAccessUrl # None THEN c.externalAccessUrl[1]
             ELSE SchemelessCourseUrl,
     ie_key |-> IE_SingleCourse]

Emit(c) == c.isAvailable[1]

\* Lines 341-350, from course i on: the entries appended, or the KeyError of a
\* course without 'isAvailable'.
RECURSIVE AddCourses(_, _, _, _)
AddCourses(cs, i, es, host) ==
    IF i > Len(cs) THEN [err |-> None, entries |-> es]
    ELSE IF cs[i].isAvailable = None THEN [err |-> Some("KeyError"), entries |-> es]
    ELSE AddCourses(cs, i + 1,
                    IF Emit(cs[i]) THEN AppendEntry(es, CourseEntry(cs[i], host)) ELSE es,
                    host)

LoopGoesOnNotEqual(n, found) == n # found
\* while number_of_courses > courses_found
LoopGoesOn(n, found) == n > found

\* One turn of the pagination loop: the page at offset courses_found.
FindCourses ==
    /\ ie = IE_AllCourses
    /\ pc = "page"
    /\ Len(requests) < MaxRequests
    /\ \E page \in {Failed} \cup {Fetched(p) : p \in Pages} :
           /\ requests' = Append(requests, Request([offset |-> courses_found], None, page))
           /\ IF ~page.ok
              THEN /\ Raise("ExtractorError")
                   /\ UNCHANGED <<number_of_courses, courses_found, entries>>
              ELSE /\ number_of_courses' = page.json.count
                   /\ IF page.json.results = None
                      THEN Raise("KeyError") /\ UNCHANGED <<courses_found, entries>>
                      ELSE LET rs == page.json.results[1]
                               added == AddCourses(CoursesOf(rs), 1, entries, url.host)
                           IN  /\ courses_found' = courses_found + Len(rs)
                               /\ entries' = added.entries
                               /\ IF added.err # None THEN Raise(added.err[1])
                                  ELSE IF page.json.count = None THEN Raise("TypeError")
                                  ELSE IF LoopGoesOn(page.json.count[1], courses_found')
                                  THEN UNCHANGED <<pc, result>>
                                  ELSE /\ result' = [kind |-> "playlist", entries |-> entries']
                                       /\ pc' = "done"
    /\ UNCHANGED <<ie, url, data, chain, video_info, playlist_info, token, redirect_url>>

\* ------------------------------------------------- the host's re-dispatch

StartPc(e) == IF e = IE_AllCourses THEN "page" ELSE "start"

Begin(e, u, d, ch) ==
    /\ ie = e
    /\ pc = StartPc(e)
    /\ url = u
    /\ data = d
    /\ chain = ch
    /\ requests = <<>>
    /\ video_info = Failed
    /\ playlist_info = None
    /\ token = None
    /\ redirect_url = None
    /\ number_of_courses = Some(1)
    /\ courses_found = 0
    /\ entries = <<>>
    /\ result = NoResult

Inputs(e) ==
    CASE e = IE_Collaborate -> RecordingUrls
      [] e = IE_Launch -> LaunchUrls
      [] e = IE_Class -> ClassInputs
      [] e = IE_SingleCourse -> {CourseUrl}
      [] OTHER -> {InstitutionUrl}

Extractors == {IE_Collaborate, IE_Launch, IE_Class, IE_SingleCourse, IE_AllCourses}

Init == \E e \in Extractors : \E u \in Inputs(e) : Begin(e, u, NoData, <<e>>)

\* What a finished resolution hands back to the host for another resolution:
\* the url_result itself, or one entry of the playlist.
Deferred ==
    IF pc # "done" THEN {}
    ELSE CASE result.kind = "url" -> {[url |-> result.url, data |-> result.data,
                                       ie_key |-> result.ie_key]}
           [] result.kind = "playlist" ->
                {[url |-> result.entries[i].url, data |-> NoData,
                  ie_key |-> result.entries[i].ie_key] : i \in 1..Len(result.entries)}
           [] OTHER -> {}

Dispatch ==
    \E d \in Deferred :
        /\ ie' = d.ie_key
        /\ pc' = StartPc(d.ie_key)
        /\ url' = d.url
        /\ data' = d.data
        /\ chain' = Append(chain, d.ie_key)
        /\ requests' = <<>>
        /\ video_info' = Failed
        /\ playlist_info' = None
        /\ token' = None
        /\ redirect_url' = None
        /\ number_of_courses' = Some(1)
        /\ courses_found' = 0
        /\ entries' = <<>>
        /\ result' = NoResult

Next ==
    \/ TrySecure
    \/ RetrieveExtra
    \/ TryFallback
    \/ FollowLaunch
    \/ DownloadPlaylist
    \/ GetItemUrl
    \/ DownloadCourseData
    \/ GetAuthToken
    \/ DownloadExtraMetadata
    \/ FindCourses
    \/ Dispatch

Spec == Init /\ [][Next]_vars

\* ------------------------------------------------- the conversions on their own

Idle(e, p, u) ==
    /\ ie = e
    /\ pc = p
    /\ url = u
    /\ data = NoData
    /\ chain = <<e>>
    /\ requests = <<>>
    /\ token = None
    /\ redirect_url = None
    /\ number_of_courses = Some(1)
    /\ courses_found = 0
    /\ entries = <<>>
    /\ result = NoResult

RecordingUrl == [shape |-> "recording", id |-> "rec1", token |-> None]

TrackSubEntries ==
    SubEntries \cup
    { [lang |-> Some("en"), label |-> None, url |-> Some("https://cdn/fr.vtt")],
      [lang |-> LiveChat, label |-> Some("chat"), url |-> Some("https://cdn/en.vtt")] }

TrackChatEntries == ChatEntries \cup {[url |-> Some("https://cdn/chat2.json")]}

InfoWith(dur, subs, chats) ==
    [duration |-> dur, name |-> Some("recording_1"), created |-> None,
     extStreams |-> None, subtitles |-> Some(subs), chats |-> Some(chats)]

\* Lines 141-159 applied to a fetched video_info.
InitSubtitles ==
    /\ Idle(IE_Collaborate, "subtitles", RecordingUrl)
    /\ playlist_info = None
    /\ \E subs \in BSeq(TrackSubEntries, MaxTracks) :
       \E chats \in BSeq(TrackChatEntries, MaxTracks) :
           video_info = Fetched(InfoWith(None, subs, chats))

BuildSubtitles ==
    /\ pc = "subtitles"
    /\ result' = ExtractInfo(url.id, video_info.json, Fetched([storageSize |-> None]))
    /\ pc' = "done"
    /\ UNCHANGED <<ie, url, data, chain, requests, video_info>>
    /\ UNCHANGED_others

SpecSubtitles == InitSubtitles /\ [][BuildSubtitles]_vars

\* Line 128 and line 227 applied to the same duration in milliseconds.
InitDuration ==
    /\ Idle(IE_Collaborate, "duration", RecordingUrl)
    /\ \E ms \in 0..MaxMs :
        /\ video_info = Fetched(InfoWith(Some(ms), <<>>, <<>>))
        /\ playlist_info = Some([results |-> Some(<<Item(Some("r1"), Some(TRUE), Some(3), Some(ms))>>),
                                 size |-> Some(1)])

ConvertDuration ==
    /\ pc = "duration"
    /\ result' = ExtractInfo(url.id, video_info.json, Fetched([storageSize |-> None]))
    /\ entries' = <<Entry(playlist_info[1].results[1][1], OtherUrl)>>
    /\ pc' = "done"
    /\ UNCHANGED <<ie, url, data, chain, requests, video_info, playlist_info, token,
                   redirect_url, number_of_courses, courses_found>>

SpecDuration == InitDuration /\ [][ConvertDuration]_vars

\* Line 201 applied to a URL.
InitUrl ==
    /\ \E u \in ClassUrls : Idle(IE_Class, "match", u)
    /\ video_info = Failed
    /\ playlist_info = None

MatchUrl ==
    /\ pc = "match"
    /\ result' = [kind |-> "match", mobj |-> MatchValidUrl(url)]
    /\ pc' = "done"
    /\ UNCHANGED <<ie, url, data, chain, requests, video_info>>
    /\ UNCHANGED_others

SpecUrl == InitUrl /\ [][MatchUrl]_vars

\* ================================================================= claims

InCollaborate == ie = IE_Collaborate /\ requests # <<>>
ApiCalls == {requests[k].api_call : k \in 1..Len(requests)}
ReturnedNoData(resp) == ~resp.ok \/ IsEmptyDict(resp.json)
FallbackUsed == Len(requests) = 2 /\ requests[2].api_call = "data"

\* C1: in BlackboardCollaborateIE._real_extract the 'data/secure' request is
\* the first one; the 'data' fallback is requested if and only if the secure
\* request returned no data; a record returned after the fallback is built from
\* the fallback's answer; a failed fallback ends in an error; and no endpoint
\* is requested twice.
C1_SecureThenFallback ==
    InCollaborate =>
        /\ requests[1].api_call = "data/secure"
        /\ \A j, k \in 1..Len(requests) : j # k => requests[j].api_call # requests[k].api_call
        /\ "data" \in ApiCalls => ReturnedNoData(requests[1].response)
        /\ pc = "done" => ("data" \in ApiCalls <=> ReturnedNoData(requests[1].response))
        /\ FallbackUsed /\ ~requests[2].response.ok => result.kind = "error"
        /\ FallbackUsed /\ result.kind = "info" =>
              /\ result.title = requests[2].response.json.name
              /\ result.timestamp = ParseIso8601(requests[2].response.json.created)
              /\ Len(result.formats) = Len(Formats(requests[2].response.json))

\* C1 witness: the secure request returned an empty object, the fallback was
\* requested and a record was built from it.
C1_Witness ==
    /\ InCollaborate /\ pc = "done" /\ FallbackUsed
    /\ requests[1].response.ok
    /\ result.kind = "info" /\ result.title # None /\ result.formats # <<>>

ExtraFailed ==
    /\ ie = IE_Collaborate /\ pc = "done" /\ Len(requests) = 2
    /\ requests[2].api_call = "" /\ ~requests[2].response.ok

CourseMetadataFailed ==
    /\ ie = IE_SingleCourse /\ pc = "done" /\ Len(requests) = 3
    /\ ~requests[3].response.ok

\* C2: a failed best-effort fetch never aborts the flow: when the secure fetch
\* succeeded and the extra-attributes fetch failed, a record is returned with
\* no file size on any format (the metadata itself being complete enough to
\* build the subtitles from); when the course-metadata fetch failed, the
\* single-course resolver still defers to the playlist resolver with the
\* metadata fields absent.
C2_BestEffortNeverAborts ==
    /\ ExtraFailed /\ Subtitles(video_info.json).err = None =>
          /\ result.kind = "info"
          /\ \A k \in 1..Len(result.formats) : result.formats[k].filesize = None
    /\ CourseMetadataFailed =>
          /\ result.kind = "url"
          /\ result.ie_key = IE_Class
          /\ result.data.title = None /\ result.data.alt_title = None
          /\ result.data.description = None /\ result.data.modified_timestamp = None

HasUrls(list) == list = None \/ \A k \in 1..Len(list[1]) : list[1][k].url # None

\* The metadata the record is built from: the secure answer, or the fallback's.
MetadataFetched ==
    /\ ie = IE_Collaborate /\ pc = "done" /\ requests # <<>>
    /\ requests[Len(requests)].api_call \in {"", "data"}
    /\ requests[Len(requests)].response.ok
    /\ video_info.ok

\* C3: whatever subset of the optional fields duration, name, created,
\* extStreams, subtitles, chats, and a subtitle's label or lang is absent from
\* successfully fetched metadata, a record is returned and no error is raised.
C3_OptionalFieldsDegrade ==
    MetadataFetched /\ HasUrls(video_info.json.subtitles) /\ HasUrls(video_info.json.chats)
        => result.kind = "info"

InAllCourses == ie = IE_AllCourses
Offset(k) == requests[k].api_call.offset
PageLen(k) == Len(requests[k].response.json.results[1])
ReturnedPlaylist == pc = "done" /\ result.kind = "playlist"

\* C4 as claimed: the pagination loop of the all-courses resolver ends exactly
\* when the cumulative count of fetched results equals paging.count, and no
\* page offset is requested twice.
C4_EndsAtEqualityNoOffsetTwice ==
    InAllCourses =>
        /\ ReturnedPlaylist => number_of_courses = Some(courses_found)
        /\ \A j, k \in 1..Len(requests) : j # k => Offset(j) # Offset(k)

\* C4 as amended: the loop goes on exactly while the total reported by the
\* last page is greater than the cumulative count, so it returns after the
\* first page that leaves the total at or below the count; each offset is the
\* previous one plus the length of the previous page, so offsets never
\* decrease and one is requested again exactly after a page without results.
C4_EndsWhenTotalReached ==
    InAllCourses =>
        /\ ReturnedPlaylist =>
              number_of_courses # None /\ number_of_courses[1] <= courses_found
        /\ pc = "page" /\ requests # <<>> =>
              number_of_courses # None /\ number_of_courses[1] > courses_found
        /\ \A k \in 1..(Len(requests) - 1) :
              /\ requests[k].response.json.count[1] > Offset(k + 1)
              /\ Offset(k + 1) = Offset(k) + PageLen(k)
              /\ (Offset(k + 1) = Offset(k) <=> PageLen(k) = 0)
        /\ requests # <<>> => Offset(1) = 0

\* C4 witness: a playlist is returned after the page at offset 0 was requested
\* twice and with more results fetched than the reported total.
C4_Witness ==
    /\ InAllCourses /\ ReturnedPlaylist
    /\ Len(requests) = 3 /\ Offset(2) = Offset(1)
    /\ number_of_courses[1] < courses_found

TracksOfSubs(subs, key) ==
    LET at == SelectSeq(subs, LAMBDA c : c.lang = key)
    IN  [k \in 1..Len(at) |-> [name |-> at[k].label, url |-> UrlOrNone(at[k].url[1])]]
TracksOfChats(chats, key) ==
    IF key = Some("live_chat")
    THEN [k \in 1..Len(chats) |-> [url |-> UrlOrNone(chats[k].url[1])]]
    ELSE <<>>
SourceSubs == video_info.json.subtitles[1]
SourceChats == video_info.json.chats[1]
RECURSIVE SumLen(_, _)
SumLen(m, keys) ==
    IF keys = {} THEN 0
    ELSE LET k == CHOOSE x \in keys : TRUE IN Len(m[k]) + SumLen(m, keys \ {k})

\* C5: in the subtitle mapping of a returned record every source subtitle is
\* under the key given by its 'lang', every source chat under 'live_chat', in
\* source order within each key, and the number of tracks is the number of
\* source subtitles plus the number of source chats.
C5_SubtitleKeys ==
    pc = "done" /\ result.kind = "info" =>
        /\ DOMAIN result.subtitles =
              {SourceSubs[k].lang : k \in 1..Len(SourceSubs)}
              \cup (IF SourceChats = <<>> THEN {} ELSE {Some("live_chat")})
        /\ \A key \in DOMAIN result.subtitles :
              result.subtitles[key] =
                  TracksOfSubs(SourceSubs, key) \o TracksOfChats(SourceChats, key)
        /\ SumLen(result.subtitles, DOMAIN result.subtitles)
              = Len(SourceSubs) + Len(SourceChats)

\* C5 witness: two subtitles share a language and a subtitle whose lang is
\* 'live_chat' shares its key with a chat.
C5_Witness ==
    /\ pc = "done" /\ result.kind = "info"
    /\ Len(SourceSubs) = 2 /\ SourceSubs[1].lang = SourceSubs[2].lang
    /\ SourceSubs[1] # SourceSubs[2]
    /\ Len(SourceChats) = 2 /\ SourceChats[1] # SourceChats[2]
    /\ Len(result.subtitles[Some("live_chat")]) = 2

SourceMs == video_info.json.duration[1]
Converted == pc = "done" /\ result.kind = "info" /\ entries # <<>>

\* C6 as claimed: for a duration of d milliseconds both resolvers emit d/1000
\* seconds, the same value, also when d is no multiple of 1000.
C6_BothEmitMsOver1000 ==
    Converted =>
        /\ result.duration[1] * 1000 = SourceMs
        /\ entries[1].duration = [s |-> result.duration[1], thousandths |-> 0]

\* C6 as amended: the single-recording resolver emits the whole seconds of
\* d/1000 (rounded down), a playlist entry emits d/1000 exactly, and the two
\* are the same value exactly when d is a multiple of 1000.
C6_FloorAndExact ==
    Converted =>
        /\ result.duration[1] * 1000 <= SourceMs
        /\ SourceMs < (result.duration[1] + 1) * 1000
        /\ entries[1].duration.s * 1000 + entries[1].duration.thousandths = SourceMs
        /\ entries[1].duration.thousandths \in 0..999
        /\ (entries[1].duration = [s |-> result.duration[1], thousandths |-> 0]
              <=> SourceMs % 1000 = 0)

\* C6 witness: a duration that is no multiple of 1000 has been converted.
C6_Witness == Converted /\ SourceMs = 1500 /\ result.duration = Some(1)

Rank(e) ==
    CASE e = IE_AllCourses -> 1
      [] e = IE_SingleCourse -> 2
      [] e = IE_Class -> 3
      [] e = IE_Launch -> 4
      [] OTHER -> 5
FixedChain ==
    /\ Len(chain) <= 5
    /\ \A k \in 1..(Len(chain) - 1) : Rank(chain[k + 1]) = Rank(chain[k]) + 1
    /\ ie = chain[Len(chain)]
    /\ ie = IE_Collaborate => Deferred = {}
ChainEnded == pc = "done" /\ Deferred = {}

\* C7 as claimed: the all-courses resolver defers only to the single-course
\* resolver, that one only to the playlist resolver, that one only to the
\* launch-token resolver, that one only to the single-recording resolver, which
\* defers to nothing; every chain of deferrals has depth at most five and ends
\* in the single-recording resolver or in an error.
C7_ChainEndsInRecordingOrError ==
    /\ FixedChain
    /\ ChainEnded /\ Len(chain) >= 2 => ie = IE_Collaborate \/ result.kind = "error"

\* C7 as amended: the same fixed chain of depth at most five, which ends in the
\* single-recording resolver, in an error, or in a playlist without entries.
C7_ChainEndsInRecordingErrorOrEmptyPlaylist ==
    /\ FixedChain
    /\ ChainEnded =>
          \/ ie = IE_Collaborate
          \/ result.kind = "error"
          \/ result.kind = "playlist" /\ result.entries = <<>>

\* C7 witness: a chain through all five resolvers ended with a media record.
C7_Witness ==
    /\ chain = <<IE_AllCourses, IE_SingleCourse, IE_Class, IE_Launch, IE_Collaborate>>
    /\ pc = "done" /\ result.kind = "info"

ClassResults == playlist_info[1].results[1]
RECURSIVE CoursesUpTo(_)
CoursesUpTo(k) ==
    IF k = 0 THEN <<>>
    ELSE CoursesUpTo(k - 1) \o CoursesOf(requests[k].response.json.results[1])
AvailableCourses == SelectSeq(CoursesUpTo(Len(requests)), LAMBDA c : c.isAvailable = Some(TRUE))

\* C8: a returned playlist holds, in the server's order and with duplicates
\* kept, one entry per item of 'results' (playlist resolver), and one entry per
\* course whose 'isAvailable' is true, page after page and in page order within
\* a page (all-courses resolver).
C8_ServerOrder ==
    /\ ie = IE_Class /\ ReturnedPlaylist =>
          /\ Len(result.entries) = Len(ClassResults)
          /\ \A k \in 1..Len(ClassResults) :
                /\ Some(result.entries[k].id) = ClassResults[k].id
                /\ result.entries[k].url = requests[k + 1].response.json.url[1]
    /\ ie = IE_AllCourses /\ ReturnedPlaylist =>
          /\ Len(result.entries) = Len(AvailableCourses)
          /\ \A k \in 1..Len(AvailableCourses) :
                result.entries[k].id = AvailableCourses[k].id

\* C8 witnesses: a playlist of two items with the same id and different URLs,
\* and a playlist of two different available courses from two pages.
C8_Witness ==
    \/ /\ ie = IE_Class /\ ReturnedPlaylist
       /\ Len(result.entries) = 2
       /\ result.entries[1].id = result.entries[2].id
       /\ result.entries[1].url # result.entries[2].url
    \/ /\ ie = IE_AllCourses /\ ReturnedPlaylist
       /\ Len(requests) >= 2
       /\ Len(result.entries) = 2
       /\ result.entries[1].id # result.entries[2].id

\* C9: _VALID_URL of the playlist resolver matches every URL of its _TESTS.
C9_TestUrlsMatch ==
    pc = "done" /\ result.kind = "match" /\ url \in {ClassTestUrl1, ClassTestUrl2}
        => result.mobj # None

ItemComplete(i) ==
    i.id # None /\ i.publicLinkAllowed # None /\ i.playbackCount # None /\ i.duration # None
InClass == ie = IE_Class /\ requests # <<>>
Listed == requests[1].response.ok /\ requests[1].response.json.results # None

\* C10: the playlist resolver requests the recordings list first and then the
\* URL of each result in order; it ends in an error, never in a playlist, when
\* the list request or a per-item request failed or a result lacks id,
\* publicLinkAllowed, playbackCount, duration or the 'url' of its response; a
\* returned playlist has an entry for every result, 'public' exactly for the
\* items whose publicLinkAllowed is true and 'needs_auth' for the others.
C10_AllOrNothing ==
    InClass =>
        /\ requests[1].api_call = <<"recordings">>
        /\ \A k \in 2..Len(requests) :
              Listed /\ requests[k].api_call = <<"recordings", ClassResults[k - 1].id[1], "url">>
        /\ pc = "done" => result.kind \in {"playlist", "error"}
        /\ pc = "done" /\ (\E k \in 1..Len(requests) : ~requests[k].response.ok)
              => result.kind = "error"
        /\ pc = "done" /\ Listed /\ (\E k \in 1..Len(ClassResults) : ~ItemComplete(ClassResults[k]))
              => result.kind = "error"
        /\ pc = "done" /\ (\E k \in 2..Len(requests) :
                              requests[k].response.ok /\ requests[k].response.json.url = None)
              => result.kind = "error"
        /\ ReturnedPlaylist =>
              /\ Len(requests) = 1 + Len(ClassResults)
              /\ Len(result.entries) = Len(ClassResults)
              /\ \A k \in 1..Len(ClassResults) :
                    /\ result.entries[k].availability \in {"public", "needs_auth"}
                    /\ result.entries[k].availability = "public"
                          <=> ClassResults[k].publicLinkAllowed = Some(TRUE)

\* C10 witness: a playlist of a public and a non-public item was returned.
C10_Witness ==
    /\ InClass /\ ReturnedPlaylist
    /\ Len(result.entries) = 2
    /\ result.entries[1].availability = "public"
    /\ result.entries[2].availability = "needs_auth"

====
